---- MODULE Spec2Model ----
(***************************************************************************)
(* Model of hw_m2_se.py: the Record / AddressBook data model, the          *)
(* upcoming-birthday query, the command handlers behind input_error and    *)
(* the command loop of main().                                             *)
(*                                                                         *)
(* Representation                                                          *)
(*   - a str that is tested character by character (a phone) is a tuple    *)
(*     of one-character strings;                                           *)
(*   - a birthday text is the tuple of its dot-separated numeric fields:   *)
(*     "08.06.1995" is <<8, 6, 1995>>, "08.06" is <<8, 6>>;                *)
(*   - a datetime.date is a record [year, month, day];                     *)
(*   - None is the empty tuple (every optional value is a tuple);          *)
(*   - an operation that can raise returns [exc, ...]: exc is NoExc or     *)
(*     the exception, the other fields are the state at that point.        *)
(***************************************************************************)
EXTENDS Integers, Sequences, FiniteSets, TLC

None == << >>

(***************************************************************************)
(* Bounds of the model                                                     *)
(***************************************************************************)
NumYears == 2
MaxDays == 7
MaxPhones == 3
MaxLoopPhones == 1
MaxCopyPhones == 1

(***************************************************************************)
(* datetime.date: proleptic Gregorian calendar                             *)
(***************************************************************************)
IsLeap(y) == (y % 4 = 0) /\ ((y % 100 # 0) \/ (y % 400 = 0))

DaysInMonth(y, m) ==
  IF m = 2 THEN (IF IsLeap(y) THEN 29 ELSE 28)
  ELSE IF m \in {4, 6, 9, 11} THEN 30 ELSE 31

RECURSIVE DaysBeforeMonth(_, _)
DaysBeforeMonth(y, m) ==
  IF m = 1 THEN 0 ELSE DaysBeforeMonth(y, m - 1) + DaysInMonth(y, m - 1)

DaysBeforeYear(y) ==
  (y - 1) * 365 + ((y - 1) \div 4) - ((y - 1) \div 100) + ((y - 1) \div 400)

IsDate(y, m, d) ==
  /\ y \in 1..9999
  /\ m \in 1..12
  /\ d \in 1..DaysInMonth(y, m)

MkDate(y, m, d) == [year |-> y, month |-> m, day |-> d]

\* date.toordinal(): 0001-01-01 is day 1
ToOrdinal(dt) == DaysBeforeYear(dt.year) + DaysBeforeMonth(dt.year, dt.month) + dt.day

\* date.fromordinal(n)
FromOrdinal(n) ==
  LET y == CHOOSE yy \in (((n - 1) \div 366) + 1)..(((n - 1) \div 365) + 1) :
             DaysBeforeYear(yy) < n /\ n <= DaysBeforeYear(yy + 1)
      r == n - DaysBeforeYear(y)
      m == CHOOSE mm \in 1..12 :
             DaysBeforeMonth(y, mm) < r /\ r <= DaysBeforeMonth(y, mm) + DaysInMonth(y, mm)
  IN MkDate(y, m, r - DaysBeforeMonth(y, m))

\* date.weekday(): Monday is 0, Sunday is 6
Weekday(dt) == (ToOrdinal(dt) + 6) % 7

\* date < date
DateLess(a, b) ==
  \/ a.year < b.year
  \/ a.year = b.year /\ a.month < b.month
  \/ a.year = b.year /\ a.month = b.month /\ a.day < b.day

\* (a - b).days
DaysBetween(a, b) == ToOrdinal(a) - ToOrdinal(b)

\* date + timedelta(days=n)
AddDays(dt, n) == FromOrdinal(ToOrdinal(dt) + n)

\* a replace that accepts every day
CanReplaceYear_Always(dt, y) == TRUE

\* date.replace(year=y) raises ValueError when the day does not exist in year y
CanReplaceYear(dt, y) == IsDate(y, dt.month, dt.day)

ReplaceYear(dt, y) == MkDate(y, dt.month, dt.day)

\* datetime.strptime(text, "%d.%m.%Y") raises ValueError unless the text has
\* three fields that form a real calendar date
CanStrptime(text) == Len(text) = 3 /\ IsDate(text[3], text[2], text[1])

\* datetime.strptime(text, "%d.%m.%Y").date()
Strptime(text) == MkDate(text[3], text[2], text[1])

\* date.strftime("%d.%m.%Y")
Strftime(dt) == <<dt.day, dt.month, dt.year>>

(***************************************************************************)
(* Fields and Record                                                       *)
(***************************************************************************)
NoExc == "no exception"

Decimals == {"0", "1", "2", "3", "4", "5", "6", "7", "8", "9"}

\* the characters str.isdigit() takes for digits: the decimal digits and the
\* digits of other kinds, of which "^2" stands for SUPERSCRIPT TWO
Digits == Decimals \cup {"^2"}

\* str.isdigit(): every character a digit and at least one character
IsDigitStr(value) == Len(value) > 0 /\ \A i \in 1..Len(value) : value[i] \in Digits

\* Phone.__init__: the condition under which no ValueError is raised
PhoneOk(value) == IsDigitStr(value) /\ Len(value) = 10

PhoneMsg == "The number must consist of numbers only and 10 digits!"
BirthdayMsg == "Invalid date format. Use DD.MM.YYYY"
NotFoundMsg == "Old number not found!"

\* Birthday.__init__: the condition under which no ValueError is raised
BirthdayOk(value) == CanStrptime(value)

\* Record.__init__
NewRecord(name) == [name |-> name, phones |-> << >>, birthday |-> None]

Raise(rec, type, msg) == [exc |-> type, msg |-> msg, rec |-> rec]

Return(rec) == [exc |-> NoExc, msg |-> "", rec |-> rec]

\* Record.add_birthday
RecordAddBirthday(rec, birthday) ==
  IF BirthdayOk(birthday)
  THEN Return([rec EXCEPT !.birthday = birthday])
  ELSE Raise(rec, "ValueError", BirthdayMsg)

\* Record.add_phone
RecordAddPhone(rec, phone) ==
  IF PhoneOk(phone)
  THEN Return([rec EXCEPT !.phones = Append(@, phone)])
  ELSE Raise(rec, "ValueError", PhoneMsg)

\* Record.find_phone: the first phone whose value is phone_value, or None
FindPhone(rec, phone_value) ==
  LET result == SelectSeq(rec.phones, LAMBDA phone : phone = phone_value)
  IN IF Len(result) > 0 THEN result[1] ELSE None

\* list.remove that drops the last element equal to x
ListRemove_Last(list, x) ==
  LET i == CHOOSE k \in 1..Len(list) :
             list[k] = x /\ \A j \in (k + 1)..Len(list) : list[j] # x
  IN SubSeq(list, 1, i - 1) \o SubSeq(list, i + 1, Len(list))

\* list.remove(x): drops the first element equal to x
ListRemove(list, x) ==
  LET i == CHOOSE k \in 1..Len(list) :
             list[k] = x /\ \A j \in 1..(k - 1) : list[j] # x
  IN SubSeq(list, 1, i - 1) \o SubSeq(list, i + 1, Len(list))

\* remove_phone that finds the phone and leaves it
RecordRemovePhone_Keep(rec, phone_value) == Return(rec)

\* Record.remove_phone
RecordRemovePhone(rec, phone_value) ==
  LET phone_to_remove == FindPhone(rec, phone_value)
  IN IF phone_to_remove # None
     THEN Return([rec EXCEPT !.phones = ListRemove(@, phone_to_remove)])
     ELSE Return(rec)

\* edit_phone that removes the old phone before it adds the new one
RecordEditPhone_RemoveFirst(rec, old_phone_val, new_phone_val) ==
  LET phone_to_edit == FindPhone(rec, old_phone_val)
  IN IF phone_to_edit # None
     THEN LET removed == RecordRemovePhone(rec, old_phone_val)
          IN RecordAddPhone(removed.rec, new_phone_val)
     ELSE Raise(rec, "ValueError", NotFoundMsg)

\* Record.edit_phone
RecordEditPhone(rec, old_phone_val, new_phone_val) ==
  LET phone_to_edit == FindPhone(rec, old_phone_val)
  IN IF phone_to_edit # None
     THEN LET added == RecordAddPhone(rec, new_phone_val)
          IN IF added.exc # NoExc THEN added
             ELSE RecordRemovePhone(added.rec, old_phone_val)
     ELSE Raise(rec, "ValueError", NotFoundMsg)

(***************************************************************************)
(* AddressBook: the dict self.data as the sequence of its records in       *)
(* insertion order                                                         *)
(***************************************************************************)
\* position of the key in self.data, 0 when absent
KeyIndex(book, name) ==
  IF \E i \in 1..Len(book) : book[i].name = name
  THEN CHOOSE i \in 1..Len(book) : book[i].name = name
  ELSE 0

\* AddressBook.add_record: a new key goes last, an existing key keeps its place
AddRecord(book, record) ==
  LET i == KeyIndex(book, record.name)
  IN IF i = 0 THEN Append(book, record) ELSE [book EXCEPT ![i] = record]

\* AddressBook.find: the record, or None
Find(book, name) ==
  LET i == KeyIndex(book, name)
  IN IF i = 0 THEN None ELSE book[i]

\* AddressBook.delete
Delete(book, name) ==
  LET i == KeyIndex(book, name)
  IN IF i = 0 THEN book ELSE SubSeq(book, 1, i - 1) \o SubSeq(book, i + 1, Len(book))

\* AddressBook.find_next_weekday
FindNextWeekday(start_date, weekday) ==
  LET days_ahead == weekday - Weekday(start_date)
  IN AddDays(start_date, IF days_ahead <= 0 THEN days_ahead + 7 ELSE days_ahead)

\* Anchor without the move to the next year
Anchor_ThisYearOnly(birthday, today) ==
  LET born == Strptime(birthday)
  IN IF ~CanReplaceYear(born, today.year)
     THEN [exc |-> "ValueError", date |-> born]
     ELSE [exc |-> NoExc, date |-> ReplaceYear(born, today.year)]

\* lines 153-157: the birthday on today's year, or on the next year when that
\* date is before today; exc when a replace raises
Anchor(birthday, today) ==
  LET born == Strptime(birthday)
  IN IF ~CanReplaceYear(born, today.year)
     THEN [exc |-> "ValueError", date |-> born]
     ELSE LET birthday_this_year == ReplaceYear(born, today.year)
          IN IF DateLess(birthday_this_year, today)
             THEN IF CanReplaceYear(birthday_this_year, today.year + 1)
                  THEN [exc |-> NoExc, date |-> ReplaceYear(birthday_this_year, today.year + 1)]
                  ELSE [exc |-> "ValueError", date |-> birthday_this_year]
             ELSE [exc |-> NoExc, date |-> birthday_this_year]

\* Roll that takes Sunday alone for the weekend
Roll_SundayOnly(birthday_this_year) ==
  IF Weekday(birthday_this_year) > 5
  THEN AddDays(birthday_this_year, 1)
  ELSE birthday_this_year

\* lines 159-160: the weekend roll-forward
Roll(birthday_this_year) ==
  IF Weekday(birthday_this_year) >= 5
  THEN FindNextWeekday(birthday_this_year, 0)
  ELSE birthday_this_year

\* the loop of get_upcoming_birthdays over records i..Len(book);
\* upcoming_birthdays is the list built so far, cands records for each record
\* with a birthday the value of birthday_this_year before and after the roll
RECURSIVE UpcomingFrom(_, _, _, _, _, _)
UpcomingFrom(book, i, today, days, upcoming_birthdays, cands) ==
  IF i > Len(book)
  THEN [exc |-> NoExc, value |-> upcoming_birthdays, cands |-> cands]
  ELSE LET record == book[i]
       IN IF record.birthday = None
          THEN UpcomingFrom(book, i + 1, today, days, upcoming_birthdays, cands)
          ELSE LET a == Anchor(record.birthday, today)
               IN IF a.exc # NoExc
                  THEN [exc |-> a.exc, value |-> << >>, cands |-> cands]
                  ELSE LET birthday_this_year == Roll(a.date)
                           delta == DaysBetween(birthday_this_year, today)
                           seen == Append(cands, [name |-> record.name,
                                                  anchored |-> a.date,
                                                  rolled |-> birthday_this_year])
                       IN IF 0 <= delta /\ delta <= days
                          THEN UpcomingFrom(book, i + 1, today, days,
                                  Append(upcoming_birthdays,
                                         [name |-> record.name,
                                          birthday |-> Strftime(birthday_this_year)]),
                                  seen)
                          ELSE UpcomingFrom(book, i + 1, today, days,
                                            upcoming_birthdays, seen)

\* AddressBook.get_upcoming_birthdays, with date.today() = today
GetUpcomingBirthdays(book, today, days) ==
  UpcomingFrom(book, 1, today, days, << >>, << >>)

(***************************************************************************)
(* Command handlers; a handler returns [exc, book, msg, data], book being  *)
(* the book as the handler left it                                         *)
(***************************************************************************)
Handled(exc, book, msg, data) == [exc |-> exc, book |-> book, msg |-> msg, data |-> data]

\* input_error: the message for a caught exception, the handler's own otherwise
InputError(r) ==
  IF r.exc = "KeyError" THEN Handled(NoExc, r.book, "There is no contact with this name.", << >>)
  ELSE IF r.exc = "ValueError" THEN Handled(NoExc, r.book, "Give me name and phone, please.", << >>)
  ELSE IF r.exc = "IndexError" THEN Handled(NoExc, r.book, "Enter name, please.", << >>)
  ELSE r

\* str.lower() on the command words in use
Lower(word) ==
  CASE word = "ADD" -> "add"
    [] word = "Exit" -> "exit"
    [] word = "CLOSE" -> "close"
    [] OTHER -> word

\* parse_input: the unpacking raises ValueError on a line without words
ParseInput(line) ==
  IF Len(line) = 0
  THEN [exc |-> "ValueError", cmd |-> "", args |-> << >>]
  ELSE [exc |-> NoExc, cmd |-> Lower(line[1]), args |-> Tail(line)]

\* add_contact under input_error
AddContact(args, book) ==
  InputError(
    IF Len(args) < 2 THEN Handled("ValueError", book, "", << >>)
    ELSE LET name == args[1]
             phone == args[2]
             absent == Find(book, name) = None
             book1 == IF absent THEN AddRecord(book, NewRecord(name)) ELSE book
             message == IF absent THEN "Contact added." ELSE "Contact updated."
             i == KeyIndex(book1, name)
         IN IF Len(phone) > 0
            THEN LET r == RecordAddPhone(book1[i], phone)
                 IN IF r.exc # NoExc THEN Handled(r.exc, book1, "", << >>)
                    ELSE Handled(NoExc, [book1 EXCEPT ![i] = r.rec], message, << >>)
            ELSE Handled(NoExc, book1, message, << >>))

\* change_user_phone under input_error
ChangeUserPhone(args, book) ==
  InputError(
    IF Len(args) # 3 THEN Handled("ValueError", book, "", << >>)
    ELSE LET name == args[1]
             i == KeyIndex(book, name)
         IN IF Find(book, name) # None
            THEN LET r == RecordEditPhone(book[i], args[2], args[3])
                 IN IF r.exc # NoExc THEN Handled(r.exc, [book EXCEPT ![i] = r.rec], "", << >>)
                    ELSE Handled(NoExc, [book EXCEPT ![i] = r.rec],
                                 "Contact {name}'s updated from {old_phone_val} to {new_phone_val}.",
                                 args)
            ELSE Handled(NoExc, book, "Contact not found.", << >>))

\* show_phone under input_error
ShowPhone(args, book) ==
  InputError(
    IF Len(args) = 0 THEN Handled("IndexError", book, "", << >>)
    ELSE LET name == args[1]
             record == Find(book, name)
         IN IF record # None /\ Len(record.phones) > 0
            THEN Handled(NoExc, book, "{name}'s phone(s): {phones}", <<name, record.phones>>)
            ELSE Handled(NoExc, book, "Phone number not found or contact does not exist.", << >>))

\* add_birthday under input_error
AddBirthday(args, book) ==
  InputError(
    IF Len(args) < 2 THEN Handled("ValueError", book, "", << >>)
    ELSE LET name == args[1]
             date_birth == args[2]
             i == KeyIndex(book, name)
         IN IF Find(book, name) # None
            THEN LET r == RecordAddBirthday(book[i], date_birth)
                 IN IF r.exc # NoExc THEN Handled(r.exc, [book EXCEPT ![i] = r.rec], "", << >>)
                    ELSE Handled(NoExc, [book EXCEPT ![i] = r.rec],
                                 "Birthday added/updated for contact {name}.", <<name>>)
            ELSE LET r == RecordAddBirthday(NewRecord(name), date_birth)
                 IN IF r.exc # NoExc THEN Handled(r.exc, book, "", << >>)
                    ELSE Handled(NoExc, AddRecord(book, r.rec),
                                 "Contact {name} added with birthday {date_birth}.",
                                 <<name, date_birth>>))

\* show_birthday under input_error
ShowBirthday(args, book) ==
  InputError(
    IF Len(args) = 0 THEN Handled("IndexError", book, "", << >>)
    ELSE LET name == args[1]
             record == Find(book, name)
         IN IF record # None /\ record.birthday # None
            THEN Handled(NoExc, book, "{name}'s birthday: {record.birthday.value}",
                         <<name, record.birthday>>)
            ELSE Handled(NoExc, book, "Birthday not found or contact does not exist.", << >>))

DigitValue(c) == CHOOSE n \in 0..9 : <<"0", "1", "2", "3", "4", "5", "6", "7", "8", "9">>[n + 1] = c

RECURSIVE DecimalValue(_)
DecimalValue(word) ==
  IF Len(word) = 0 THEN 0
  ELSE 10 * DecimalValue(SubSeq(word, 1, Len(word) - 1)) + DigitValue(word[Len(word)])

\* a string of decimal digits, at least one
IsDecimalStr(word) == Len(word) > 0 /\ \A i \in 1..Len(word) : word[i] \in Decimals

\* int(word) raises ValueError unless word is an optional sign and decimal digits
CanInt(word) ==
  IF Len(word) > 0 /\ word[1] \in {"-", "+"} THEN IsDecimalStr(Tail(word)) ELSE IsDecimalStr(word)

\* int(word)
IntOf(word) ==
  IF word[1] = "-" THEN 0 - DecimalValue(Tail(word))
  ELSE IF word[1] = "+" THEN DecimalValue(Tail(word))
  ELSE DecimalValue(word)

\* birthdays under input_error, with date.today() = today; query is the
\* outcome of get_upcoming_birthdays when it was called
Birthdays(args, book, today) ==
  IF Len(args) > 0 /\ ~CanInt(args[1])
  THEN [called |-> FALSE, days |-> 0, query |-> [exc |-> NoExc, value |-> << >>, cands |-> << >>],
        h |-> InputError(Handled("ValueError", book, "", << >>))]
  ELSE LET days == IF Len(args) > 0 THEN IntOf(args[1]) ELSE 7
           upcoming == GetUpcomingBirthdays(book, today, days)
       IN [called |-> TRUE, days |-> days, query |-> upcoming,
           h |-> InputError(
                   IF upcoming.exc # NoExc THEN Handled(upcoming.exc, book, "", << >>)
                   ELSE IF Len(upcoming.value) = 0
                        THEN Handled(NoExc, book, "No upcoming birthdays within the next {} day(s).", <<days>>)
                        ELSE Handled(NoExc, book, "{entry['name']}: {entry['birthday']}", upcoming.value))]

(***************************************************************************)
(* Objects: a dict is the sequence of its [key, ref] items, a Record holds *)
(* its name, a reference to its phone list and its birthday                *)
(***************************************************************************)
CopyNames == {"Alice", "Bob"}

DictIds == 1..2
RecIds == 1..(2 * Cardinality(CopyNames) + 1)
ListIds == 1..(2 * Cardinality(CopyNames) + 1)

FreeRec == [used |-> FALSE, name |-> "", phones |-> 0, birthday |-> None]
FreeList == [used |-> FALSE, items |-> << >>]

\* a new AddressBook: its empty data dict is dict 1
EmptyHeap ==
  [dicts |-> [d \in DictIds |-> << >>],
   recs |-> [r \in RecIds |-> FreeRec],
   lists |-> [l \in ListIds |-> FreeList]]

NewRec(h) == CHOOSE r \in RecIds : ~h.recs[r].used /\ \A q \in RecIds : q < r => h.recs[q].used
NewList(h) == CHOOSE l \in ListIds : ~h.lists[l].used /\ \A q \in ListIds : q < l => h.lists[q].used

RECURSIVE Dedup(_)
Dedup(seq) ==
  IF Len(seq) = 0 THEN << >>
  ELSE LET front == Dedup(SubSeq(seq, 1, Len(seq) - 1))
           x == seq[Len(seq)]
       IN IF \E i \in 1..Len(front) : front[i] = x THEN front ELSE Append(front, x)

PosIn(seq, x) == CHOOSE i \in 1..Len(seq) : seq[i] = x

\* objects no live dict reaches are freed; the others are numbered in the
\* order the live dicts reach them (which object is which does not matter,
\* only which are the same)
Collect(h, live) ==
  LET refs == Dedup([i \in 1..Len(h.dicts[1]) |-> h.dicts[1][i].ref]
                    \o (IF 2 \in live THEN [i \in 1..Len(h.dicts[2]) |-> h.dicts[2][i].ref]
                        ELSE << >>))
      lrefs == Dedup([i \in 1..Len(refs) |-> h.recs[refs[i]].phones])
  IN [dicts |-> [d \in DictIds |->
                   IF d \in live
                   THEN [i \in 1..Len(h.dicts[d]) |->
                           [key |-> h.dicts[d][i].key, ref |-> PosIn(refs, h.dicts[d][i].ref)]]
                   ELSE << >>],
      recs |-> [k \in RecIds |->
                  IF k <= Len(refs)
                  THEN [h.recs[refs[k]] EXCEPT !.phones = PosIn(lrefs, @)]
                  ELSE FreeRec],
      lists |-> [k \in ListIds |-> IF k <= Len(lrefs) THEN h.lists[lrefs[k]] ELSE FreeList]]

\* the Record object r read as a value
RecValue(h, r) ==
  [name |-> h.recs[r].name, phones |-> h.lists[h.recs[r].phones].items,
   birthday |-> h.recs[r].birthday]

\* a method of Record left object r as value v: the list is changed in place
RecStore(h, r, v) ==
  [h EXCEPT !.lists[h.recs[r].phones].items = v.phones, !.recs[r].birthday = v.birthday]

\* position of the key in dict d, 0 when absent
DictIndex(h, d, name) ==
  IF \E i \in 1..Len(h.dicts[d]) : h.dicts[d][i].key = name
  THEN CHOOSE i \in 1..Len(h.dicts[d]) : h.dicts[d][i].key = name
  ELSE 0

\* Record(name) and AddressBook.add_record on the book with data dict d
HeapAddRecord(h, d, name) ==
  LET l == NewList(h)
      r == NewRec(h)
      i == DictIndex(h, d, name)
      item == [key |-> name, ref |-> r]
  IN [h EXCEPT !.lists[l] = [used |-> TRUE, items |-> << >>],
               !.recs[r] = [used |-> TRUE, name |-> name, phones |-> l, birthday |-> None],
               !.dicts[d] = IF i = 0 THEN Append(@, item) ELSE [@ EXCEPT ![i] = item]]

\* AddressBook.delete on the book with data dict d
HeapDelete(h, d, name) ==
  LET i == DictIndex(h, d, name)
  IN IF i = 0 THEN h
     ELSE [h EXCEPT !.dicts[d] = SubSeq(@, 1, i - 1) \o SubSeq(@, i + 1, Len(@))]

\* copy.deepcopy of the items of a dict from item i on: every Record and every
\* list is copied once (memo), into new objects
RECURSIVE DeepCopyItems(_, _, _, _, _, _)
DeepCopyItems(h, items, i, memo, lmemo, acc) ==
  IF i > Len(items) THEN [heap |-> h, items |-> acc]
  ELSE LET old == items[i].ref
       IN IF memo[old] # 0
          THEN DeepCopyItems(h, items, i + 1, memo, lmemo,
                             Append(acc, [key |-> items[i].key, ref |-> memo[old]]))
          ELSE LET oldl == h.recs[old].phones
                   r == NewRec(h)
                   l == IF lmemo[oldl] # 0 THEN lmemo[oldl] ELSE NewList(h)
                   h2 == [h EXCEPT !.lists[l] = [used |-> TRUE, items |-> h.lists[oldl].items],
                                   !.recs[r] = [h.recs[old] EXCEPT !.phones = l]]
               IN DeepCopyItems(h2, items, i + 1, [memo EXCEPT ![old] = r],
                                [lmemo EXCEPT ![oldl] = l],
                                Append(acc, [key |-> items[i].key, ref |-> r]))

\* a copy whose data is the dict of the source, as AddressBook.__copy__ makes it
CopyBook_SameDict(h, d) == [heap |-> h, data |-> d]

\* AddressBook.__deepcopy__ of the book with data dict d: [heap, data] with
\* data the dict of the new book
DeepCopyBook(h, d) ==
  LET nd == CHOOSE x \in DictIds : x # d
      c == DeepCopyItems(h, h.dicts[d], 1, [r \in RecIds |-> 0], [l \in ListIds |-> 0], << >>)
  IN [heap |-> [c.heap EXCEPT !.dicts[nd] = c.items], data |-> nd]

(***************************************************************************)
(* State                                                                   *)
(***************************************************************************)
VARIABLES
  book,     \* the AddressBook: its records in insertion order
  today,    \* date.today() as last read
  days,     \* the days argument of the last get_upcoming_birthdays call
  result,   \* what the last get_upcoming_birthdays call returned or raised
  qpc,      \* "ready" before the query, "done" after it
  rec,      \* a Record on its own
  call,     \* the last call on rec: method, arguments, rec before it, outcome
  prev,     \* the call before it
  pc,       \* main(): "start", "loop", "done", or "crashed" on an uncaught exception
  user_input, \* the words of the line last read
  command,  \* the command last parsed
  out,      \* the message last displayed
  file,     \* addressbook.pkl
  saves,    \* calls of save_data in this run
  heap,     \* the objects behind two books: dicts, Records and phone lists
  books,    \* the data dict of the original book and of its copy (0: no copy yet)
  target    \* the book the last method was called on

queryVars == <<book, today, days, result, qpc>>
recordVars == <<rec, call, prev>>
loopVars == <<pc, user_input, command, out, file, saves>>
copyVars == <<heap, books, target>>

vars == <<book, today, days, result, qpc, rec, call, prev,
          pc, user_input, command, out, file, saves, heap, books, target>>

Years == 2023..(2023 + NumYears - 1)

Todays == {dt \in [year : Years, month : 1..12, day : 1..31] :
             IsDate(dt.year, dt.month, dt.day)}

QueryNames == <<"Alice", "Bob">>

QueryBirthdays ==
  {<<12, 6, 1990>>, <<8, 6, 1995>>, <<9, 6, 1991>>, <<29, 2, 2000>>,
   <<1, 1, 1999>>, <<31, 12, 1985>>}

\* the books of up to Len(QueryNames) records, each with or without a birthday
QueryBooks ==
  UNION {[1..n -> QueryBirthdays \cup {None}] : n \in 0..Len(QueryNames)}

BookOf(bs) ==
  [i \in 1..Len(bs) |-> [name |-> QueryNames[i], phones |-> << >>, birthday |-> bs[i]]]

NoResult == [exc |-> NoExc, value |-> << >>, cands |-> << >>]

NoCall == [op |-> "none", args |-> << >>, before |-> NewRecord("Alice"),
           exc |-> NoExc, msg |-> "", ret |-> None]

Shown(text, data) == [text |-> text, data |-> data]

NoFile == [exists |-> FALSE, book |-> << >>]

IdleRecord == rec = NewRecord("Alice") /\ call = NoCall /\ prev = NoCall

NoBooks == [orig |-> 1, copy |-> 0]

IdleCopy == heap = EmptyHeap /\ books = NoBooks /\ target = "orig"

IdleLoop ==
  /\ pc = "start"
  /\ user_input = << >>
  /\ command = ""
  /\ out = Shown("", << >>)
  /\ file = NoFile
  /\ saves = 0
  /\ IdleCopy

(***************************************************************************)
(* The upcoming-birthday query on any book, any day, any window            *)
(***************************************************************************)
InitQuery ==
  /\ today \in Todays
  /\ days \in 0..MaxDays
  /\ \E bs \in QueryBooks : book = BookOf(bs)
  /\ result = NoResult
  /\ qpc = "ready"
  /\ IdleRecord
  /\ IdleLoop

Query ==
  /\ qpc = "ready"
  /\ result' = GetUpcomingBirthdays(book, today, days)
  /\ qpc' = "done"
  /\ UNCHANGED <<book, today, days>>
  /\ UNCHANGED <<recordVars, loopVars, copyVars>>

NextQuery == Query

SpecQuery == InitQuery /\ [][NextQuery]_vars

\* every day and month of a leap year, as a birthday text
AllBirthdays ==
  {<<d, m, 2000>> : d \in 1..31, m \in 1..12} \ {t \in {<<d, m, 2000>> : d \in 1..31, m \in 1..12} : ~CanStrptime(t)}

\* the query on a one-record book, for every birthday of the calendar
InitYear ==
  /\ today \in Todays
  /\ days = MaxDays
  /\ \E b \in AllBirthdays : book = BookOf(<<b>>)
  /\ result = NoResult
  /\ qpc = "ready"
  /\ IdleRecord
  /\ IdleLoop

SpecYear == InitYear /\ [][NextQuery]_vars

(***************************************************************************)
(* The rule of the specification, stated on day numbers                    *)
(***************************************************************************)
Ord(y, m, d) == DaysBeforeYear(y) + DaysBeforeMonth(y, m) + d

\* the day and month of the text exist in year y
ExistsIn(text, y) == text[1] <= DaysInMonth(y, text[2])

\* the year the birthday is re-anchored on
TargetYear(text, t) ==
  IF Ord(t.year, text[2], text[1]) < ToOrdinal(t) THEN t.year + 1 ELSE t.year

\* day number of the candidate of step 2
CandidateOrd(text, t) == Ord(TargetYear(text, t), text[2], text[1])

\* day number of the candidate after the roll of step 3
RolledOrd(text, t) ==
  LET c == CandidateOrd(text, t)
  IN IF (c + 6) % 7 \in {5, 6}
     THEN CHOOSE o \in (c + 1)..(c + 7) : (o + 6) % 7 = 0
     ELSE c

\* every birthday of the book can be re-anchored
Anchorable(b, t) ==
  \A i \in 1..Len(b) :
     b[i].birthday # None =>
        ExistsIn(b[i].birthday, t.year) /\ ExistsIn(b[i].birthday, TargetYear(b[i].birthday, t))

InWindow(text, t, n) ==
  0 <= RolledOrd(text, t) - ToOrdinal(t) /\ RolledOrd(text, t) - ToOrdinal(t) <= n

\* indices of the records the rule includes, in the book's order
RECURSIVE IncludedFrom(_, _, _, _)
IncludedFrom(b, i, t, n) ==
  IF i > Len(b) THEN << >>
  ELSE IF b[i].birthday # None /\ ExistsIn(b[i].birthday, TargetYear(b[i].birthday, t))
          /\ ExistsIn(b[i].birthday, t.year) /\ InWindow(b[i].birthday, t, n)
       THEN <<i>> \o IncludedFrom(b, i + 1, t, n)
       ELSE IncludedFrom(b, i + 1, t, n)

\* the pairs the rule emits
Expected(b, t, n) ==
  LET idx == IncludedFrom(b, 1, t, n)
  IN [k \in 1..Len(idx) |->
        [name |-> b[idx[k]].name,
         birthday |-> Strftime(FromOrdinal(RolledOrd(b[idx[k]].birthday, t)))]]

\* C1: for every book, today and daysAhead the query returns exactly the pairs
\* of the rule, in the book's order.
C1_Original ==
  qpc = "done" => result.exc = NoExc /\ result.value = Expected(book, today, days)

\* The same when every birthday of the book exists in the year it is
\* re-anchored on.
C1_Anchorable ==
  (qpc = "done" /\ Anchorable(book, today)) =>
     result.exc = NoExc /\ result.value = Expected(book, today, days)

\* a Saturday birthday 5 days after a Monday, emitted at offset 7, after a
\* later-dated record and so not sorted by date
C1_Witness ==
  /\ qpc = "done"
  /\ today = MkDate(2024, 6, 3)
  /\ days = 7
  /\ result.value = <<[name |-> "Alice", birthday |-> <<10, 6, 2024>>],
                      [name |-> "Bob", birthday |-> <<10, 6, 2024>>]>>
  /\ book[1].birthday = <<9, 6, 1991>>
  /\ book[2].birthday = <<8, 6, 1995>>

TextOrd(text) == Ord(text[3], text[2], text[1])

\* C6: every emitted date is a Monday to Friday within [today, today + days];
\* the roll moves a Saturday by 2 days, a Sunday by 1 day, to a Monday, and
\* leaves the other days alone; the emitted date is the rolled one.
C6_WeekdayInRange ==
  qpc = "done" =>
    /\ \A k \in 1..Len(result.value) :
         LET o == TextOrd(result.value[k].birthday)
         IN /\ (o + 6) % 7 \in 0..4
            /\ ToOrdinal(today) <= o
            /\ o <= ToOrdinal(today) + days
            /\ \E j \in 1..Len(result.cands) :
                  /\ result.cands[j].name = result.value[k].name
                  /\ ToOrdinal(result.cands[j].rolled) = o
    /\ \A j \in 1..Len(result.cands) :
         LET a == ToOrdinal(result.cands[j].anchored)
             r == ToOrdinal(result.cands[j].rolled)
         IN /\ (a + 6) % 7 = 5 => r = a + 2 /\ (r + 6) % 7 = 0
            /\ (a + 6) % 7 = 6 => r = a + 1 /\ (r + 6) % 7 = 0
            /\ (a + 6) % 7 \in 0..4 => r = a

\* a Saturday and a Sunday candidate, both rolled and emitted
C6_Witness ==
  /\ qpc = "done"
  /\ Len(result.value) = 2
  /\ \E j \in 1..Len(result.cands) : Weekday(result.cands[j].anchored) = 5
  /\ \E j \in 1..Len(result.cands) : Weekday(result.cands[j].anchored) = 6

\* C8: when the day and month exist in the years concerned, the candidate of
\* step 2 is not before today and is the nearest occurrence of the day and
\* month on or after today; a record is excluded only by the upper bound.
C8_NearestOccurrence ==
  qpc = "done" =>
    \A i \in 1..Len(book) :
       LET text == book[i].birthday
       IN (text # None /\ ExistsIn(text, today.year) /\ ExistsIn(text, TargetYear(text, today))
           /\ result.exc = NoExc) =>
            \E j \in 1..Len(result.cands) :
               LET c == result.cands[j]
               IN /\ c.name = book[i].name
                  /\ c.anchored.month = text[2] /\ c.anchored.day = text[1]
                  /\ ToOrdinal(c.anchored) >= ToOrdinal(today)
                  /\ \A y \in (today.year - 1)..(today.year + 1) :
                        (ExistsIn(text, y) /\ Ord(y, text[2], text[1]) >= ToOrdinal(today))
                           => Ord(y, text[2], text[1]) >= ToOrdinal(c.anchored)
                  /\ ToOrdinal(c.rolled) >= ToOrdinal(today)
                  /\ (\A k \in 1..Len(result.value) : result.value[k].name # c.name)
                        => ToOrdinal(c.rolled) - ToOrdinal(today) > days

\* a birthday already past this year, re-anchored on the next year
C8_Witness ==
  /\ qpc = "done"
  /\ Len(book) = 1
  /\ Len(result.cands) = 1
  /\ result.cands[1].anchored.year = today.year + 1
  /\ result.value = << >>

(***************************************************************************)
(* A Record under any sequence of its methods                              *)
(***************************************************************************)
P1 == <<"0", "5", "0", "1", "1", "1", "2", "2", "3", "3">>
P2 == <<"0", "6", "7", "4", "4", "4", "5", "5", "6", "6">>
PShort == <<"1", "2", "3">>
PAlpha == <<"0", "5", "0", "1", "1", "1", "2", "2", "3", "x">>
PSuper == <<"0", "5", "0", "1", "1", "1", "2", "2", "3", "^2">>

PhoneArgs == {P1, PSuper, PShort, PAlpha}

DateArgs == {<<8, 6, 1995>>, <<29, 2, 2000>>, <<30, 2, 2024>>, <<29, 2, 2023>>, <<12, 6>>}

IdleQuery ==
  /\ book = << >>
  /\ today = MkDate(2023, 1, 1)
  /\ days = 0
  /\ result = NoResult
  /\ qpc = "ready"

InitRecord ==
  /\ rec = NewRecord("Alice")
  /\ call = NoCall
  /\ prev = NoCall
  /\ IdleQuery
  /\ IdleLoop

\* the call and its outcome r = [exc, msg, rec]
Called(op, args, r, ret) ==
  /\ call' = [op |-> op, args |-> args, before |-> rec,
              exc |-> r.exc, msg |-> r.msg, ret |-> ret]
  /\ prev' = call
  /\ rec' = r.rec
  /\ UNCHANGED <<queryVars, loopVars, copyVars>>

RecAddPhone ==
  \E phone \in PhoneArgs :
     /\ Len(rec.phones) < MaxPhones
     /\ Called("add_phone", <<phone>>, RecordAddPhone(rec, phone), None)

RecRemovePhone ==
  \E phone_value \in PhoneArgs :
     Called("remove_phone", <<phone_value>>, RecordRemovePhone(rec, phone_value), None)

RecEditPhone ==
  \E old_phone_val \in PhoneArgs, new_phone_val \in PhoneArgs :
     Called("edit_phone", <<old_phone_val, new_phone_val>>,
            RecordEditPhone(rec, old_phone_val, new_phone_val), None)

RecFindPhone ==
  \E phone_value \in PhoneArgs :
     Called("find_phone", <<phone_value>>, Return(rec), FindPhone(rec, phone_value))

RecAddBirthday ==
  \E birthday \in DateArgs :
     Called("add_birthday", <<birthday>>, RecordAddBirthday(rec, birthday), None)

NextRecord ==
  \/ RecAddPhone
  \/ RecRemovePhone
  \/ RecEditPhone
  \/ RecFindPhone
  \/ RecAddBirthday

SpecRecord == InitRecord /\ [][NextRecord]_vars

HasPhone(r, v) == \E i \in 1..Len(r.phones) : r.phones[i] = v

\* a string of 10 digits, digits being the characters str.isdigit() accepts
TenDigits(v) == Len(v) = 10 /\ \A i \in 1..Len(v) : v[i] \in Digits

FirstIndex(list, v) == CHOOSE i \in 1..Len(list) : list[i] = v /\ \A j \in 1..(i - 1) : list[j] # v

WithoutIndex(list, i) == [k \in 1..(Len(list) - 1) |-> IF k < i THEN list[k] ELSE list[k + 1]]

C4_Original ==
  (prev.op = "add_phone" /\ prev.exc = NoExc /\ call.op = "remove_phone"
     /\ call.args = prev.args) =>
        FindPhone(rec, call.args[1]) = None

\* C4 as amended: the same on a record that did not hold v before add_phone(v).
C4_FreshPhone ==
  (prev.op = "add_phone" /\ prev.exc = NoExc /\ call.op = "remove_phone"
     /\ call.args = prev.args /\ ~HasPhone(prev.before, call.args[1])) =>
        FindPhone(rec, call.args[1]) = None /\ rec.phones = prev.before.phones

\* add_phone(v) then remove_phone(v) on a record holding another phone twice
C4_Witness ==
  /\ prev.op = "add_phone"
  /\ prev.exc = NoExc
  /\ call.op = "remove_phone"
  /\ call.args = prev.args
  /\ Len(prev.before.phones) = 2
  /\ prev.before.phones[1] = prev.before.phones[2]
  /\ ~HasPhone(prev.before, call.args[1])

\* C9: a successful edit_phone(old, new) keeps the length, drops the first
\* phone equal to old, puts new last and keeps the order of the others;
\* remove_phone(v) drops the first phone equal to v, or nothing.
C9_EditRemoveShape ==
  /\ (call.op = "edit_phone" /\ HasPhone(call.before, call.args[1]) /\ TenDigits(call.args[2])) =>
        /\ call.exc = NoExc
        /\ Len(rec.phones) = Len(call.before.phones)
        /\ rec.phones =
             Append(WithoutIndex(call.before.phones, FirstIndex(call.before.phones, call.args[1])),
                    call.args[2])
  /\ call.op = "remove_phone" =>
        /\ call.exc = NoExc
        /\ rec.phones =
             IF HasPhone(call.before, call.args[1])
             THEN WithoutIndex(call.before.phones, FirstIndex(call.before.phones, call.args[1]))
             ELSE call.before.phones
  /\ call.op \in {"edit_phone", "remove_phone"} =>
        rec.name = call.before.name /\ rec.birthday = call.before.birthday

\* edit_phone(old, old) on a list that holds old twice, around another phone
C9_Witness ==
  /\ call.op = "edit_phone"
  /\ call.exc = NoExc
  /\ call.args[1] = call.args[2]
  /\ Len(call.before.phones) = 3
  /\ call.before.phones[1] = call.args[1]
  /\ call.before.phones[3] = call.args[1]
  /\ call.before.phones[2] # call.args[1]
  /\ rec.phones[1] = call.before.phones[2]

(***************************************************************************)
(* main(): load, the command loop, save                                    *)
(***************************************************************************)
Names == {"Alice", "Bob"}

LoopPhones == {P1, P2, PShort}

LoopDates == {<<29, 2, 2000>>, <<12, 6, 1990>>, <<30, 2, 2024>>}

LoopTodays == {MkDate(2023, 6, 10), MkDate(2024, 6, 10), MkDate(2024, 2, 29)}

DaysWords == {<<"2">>, <<"^2">>}

\* the model keeps every phone list within MaxLoopPhones phones
Bounded(b) == \A i \in 1..Len(b) : Len(b[i].phones) <= MaxLoopPhones

Init ==
  /\ pc = "start"
  /\ user_input = << >>
  /\ command = ""
  /\ out = Shown("", << >>)
  /\ file \in {NoFile, [exists |-> TRUE, book |-> <<[NewRecord("Bob") EXCEPT !.phones = <<P2>>]>>]}
  /\ saves = 0
  /\ IdleQuery
  /\ IdleRecord
  /\ IdleCopy

\* load_data and the welcome message
Load ==
  /\ pc = "start"
  /\ book' = IF file.exists THEN file.book ELSE << >>
  /\ out' = Shown("Welcome to the assistant bot!", << >>)
  /\ pc' = "loop"
  /\ UNCHANGED <<user_input, command, file, saves, today, days, result, qpc, recordVars, copyVars>>

\* a line of the loop: read, parse, dispatch on cmd
Line(line, cmd) ==
  /\ pc = "loop"
  /\ ParseInput(line).exc = NoExc
  /\ ParseInput(line).cmd = cmd
  /\ user_input' = line
  /\ command' = cmd

Display(h) ==
  /\ Bounded(h.book)
  /\ book' = h.book
  /\ out' = Shown(h.msg, h.data)

Stay == pc' = "loop" /\ UNCHANGED <<file, saves, qpc, recordVars, copyVars>>

\* the command made no call of get_upcoming_birthdays
NoQuery == today' = MkDate(2023, 1, 1) /\ days' = 0 /\ result' = NoResult

\* an empty or blank line: parse_input raises and nothing catches it
ReadEmpty ==
  /\ pc = "loop"
  /\ ParseInput(<< >>).exc # NoExc
  /\ user_input' = << >>
  /\ pc' = "crashed"
  /\ NoQuery
  /\ UNCHANGED <<book, command, out, file, saves, qpc, recordVars, copyVars>>

\* close / exit: leave the loop, then save_data
CmdExit ==
  \E word \in {"close", "exit", "Exit", "CLOSE"} :
     /\ pc = "loop"
     /\ ParseInput(<<word>>).cmd \in {"close", "exit"}
     /\ user_input' = <<word>>
     /\ command' = ParseInput(<<word>>).cmd
     /\ out' = Shown("Good bye!", << >>)
     /\ file' = [exists |-> TRUE, book |-> book]
     /\ saves' = saves + 1
     /\ pc' = "done"
     /\ NoQuery
     /\ UNCHANGED <<book, qpc, recordVars, copyVars>>

CmdHello ==
  /\ Line(<<"hello">>, "hello")
  /\ out' = Shown("How can I help you?", << >>)
  /\ Stay
  /\ NoQuery
  /\ UNCHANGED book

CmdAdd ==
  \E word \in {"add", "ADD"}, args \in {<< >>} \cup {<<n>> : n \in Names}
                                    \cup {<<n, p>> : n \in Names, p \in LoopPhones}
                                    \cup {<<n, P1, P2>> : n \in Names} :
     /\ Line(<<word>> \o args, "add")
     /\ Display(AddContact(args, book))
     /\ Stay
     /\ NoQuery

CmdChange ==
  \E args \in {<<n, P1>> : n \in Names}
                \cup {<<n, o, p>> : n \in Names, o \in {P1, P2}, p \in LoopPhones} :
     /\ Line(<<"change">> \o args, "change")
     /\ Display(ChangeUserPhone(args, book))
     /\ Stay
     /\ NoQuery

CmdPhone ==
  \E args \in {<< >>} \cup {<<n>> : n \in Names} :
     /\ Line(<<"phone">> \o args, "phone")
     /\ Display(ShowPhone(args, book))
     /\ Stay
     /\ NoQuery

CmdAll ==
  /\ Line(<<"all">>, "all")
  /\ out' = IF Len(book) = 0 THEN Shown("The address book is empty.", << >>)
            ELSE Shown("{record}", book)
  /\ Stay
  /\ NoQuery
  /\ UNCHANGED book

CmdAddBirthday ==
  \E args \in {<<n>> : n \in Names} \cup {<<n, d>> : n \in Names, d \in LoopDates} :
     /\ Line(<<"add-birthday">> \o args, "add-birthday")
     /\ Display(AddBirthday(args, book))
     /\ Stay
     /\ NoQuery

CmdShowBirthday ==
  \E args \in {<< >>} \cup {<<n>> : n \in Names} :
     /\ Line(<<"show-birthday">> \o args, "show-birthday")
     /\ Display(ShowBirthday(args, book))
     /\ Stay
     /\ NoQuery

CmdBirthdays ==
  \E args \in {<< >>} \cup {<<w>> : w \in DaysWords}, now \in LoopTodays :
     LET b == Birthdays(args, book, now)
     IN /\ Line(<<"birthdays">> \o args, "birthdays")
        /\ Display(b.h)
        /\ IF b.called
           THEN today' = now /\ days' = b.days /\ result' = b.query
           ELSE NoQuery
        /\ Stay

CmdInvalid ==
  \E line \in {<<"helo">>, <<"remove", "Alice">>} :
     /\ Line(line, Lower(line[1]))
     /\ command' \notin {"close", "exit", "hello", "add", "change", "phone", "all",
                         "add-birthday", "show-birthday", "birthdays"}
     /\ out' = Shown("Invalid command.", << >>)
     /\ Stay
     /\ NoQuery
     /\ UNCHANGED book

Next ==
  \/ Load
  \/ ReadEmpty
  \/ CmdExit
  \/ CmdHello
  \/ CmdAdd
  \/ CmdChange
  \/ CmdPhone
  \/ CmdAll
  \/ CmdAddBirthday
  \/ CmdShowBirthday
  \/ CmdBirthdays
  \/ CmdInvalid

Spec == Init /\ [][Next]_vars

ErrorTexts ==
  {"There is no contact with this name.", "Give me name and phone, please.",
   "Enter name, please.", "Contact not found."}

\* C2: a command of add, change or add-birthday that ends in an error message
\* leaves the book as it was.
C2_Original ==
  [][(pc = "loop" /\ pc' = "loop" /\ command' \in {"add", "change", "add-birthday"}
        /\ out'.text \in ErrorTexts) => book' = book]_vars

\* C7: a run that has ended has called save_data once, with the book of the
\* run, and a run in its loop has not called it.
C7_Original ==
  /\ pc \in {"done", "crashed"} => saves = 1 /\ file = [exists |-> TRUE, book |-> book]
  /\ pc \in {"start", "loop"} => saves = 0

\* the run ends by the exit command
C7_ExitSaves ==
  pc = "done" => saves = 1 /\ file = [exists |-> TRUE, book |-> book]

\* a 29.02 birthday whose year of re-anchoring, seen from day t, is not leap
LeapDayMisses(b, t) ==
  \E i \in 1..Len(b) :
     /\ b[i].birthday # None
     /\ b[i].birthday[1] = 29 /\ b[i].birthday[2] = 2
     /\ ~IsLeap(IF IsLeap(t.year) /\ t.month > 2 THEN t.year + 1 ELSE t.year)

\* the birthdays command got as far as calling get_upcoming_birthdays
QueryMade(line) ==
  Len(line) = 1 \/ \A i \in 1..Len(line[2]) : line[2][i] \in Decimals

\* C10: with a 29.02 birthday re-anchored on a year that is not leap, the query
\* raises and returns no pair, the birthdays command shows the generic
\* message and the book is unchanged.
C10_LeapDayFails ==
  [][(pc = "loop" /\ pc' = "loop" /\ command' = "birthdays" /\ QueryMade(user_input')
        /\ LeapDayMisses(book, today')) =>
          /\ result'.exc = "ValueError"
          /\ result'.value = << >>
          /\ out'.text = "Give me name and phone, please."
          /\ book' = book]_vars

\* the query failed on a book where another record's birthday is in the window
C10_Witness ==
  /\ pc = "loop"
  /\ command = "birthdays"
  /\ QueryMade(user_input)
  /\ LeapDayMisses(book, today)
  /\ out.text = "Give me name and phone, please."
  /\ result.exc = "ValueError"
  /\ today = MkDate(2023, 6, 10)
  /\ days >= 2
  /\ \E i \in 1..Len(book) : book[i].birthday = <<12, 6, 1990>>

(***************************************************************************)
(* A book, its deep copy, and methods called on either                     *)
(***************************************************************************)
CopyPhones == {P1, P2}

CopyDates == {<<8, 6, 1995>>}

InitCopy ==
  /\ heap = EmptyHeap
  /\ books = NoBooks
  /\ target = "orig"
  /\ IdleQuery
  /\ IdleRecord
  /\ pc = "start" /\ user_input = << >> /\ command = "" /\ out = Shown("", << >>)
  /\ file = NoFile /\ saves = 0

RECURSIVE SumLen(_, _, _)
SumLen(h, items, i) ==
  IF i > Len(items) THEN 0
  ELSE Len(h.lists[h.recs[items[i].ref].phones].items) + SumLen(h, items, i + 1)

\* the model keeps every book within MaxCopyPhones phones in all
PhonesIn(h, d) == SumLen(h, h.dicts[d], 1)

Live(bs) == {bs.orig} \cup (IF bs.copy = 0 THEN {} ELSE {bs.copy})

\* a method called on book b left the heap as h
On(b, h) ==
  /\ books[b] # 0
  /\ heap' = Collect(h, Live(books))
  /\ \A d \in Live(books) : PhonesIn(heap', d) <= MaxCopyPhones
  /\ target' = b
  /\ UNCHANGED <<books, queryVars, recordVars, loopVars>>

\* the Record book b holds under name
Held(b, name) == heap.dicts[books[b]][DictIndex(heap, books[b], name)].ref

Holds(b, name) == books[b] # 0 /\ DictIndex(heap, books[b], name) # 0

CopyAddRecord ==
  \E b \in {"orig", "copy"}, name \in CopyNames :
     /\ books[b] # 0
     /\ On(b, HeapAddRecord(heap, books[b], name))

CopyDelete ==
  \E b \in {"orig", "copy"}, name \in CopyNames :
     /\ books[b] # 0
     /\ On(b, HeapDelete(heap, books[b], name))

CopyAddPhone ==
  \E b \in {"orig", "copy"}, name \in CopyNames, phone \in CopyPhones :
     /\ Holds(b, name)
     /\ On(b, RecStore(heap, Held(b, name),
                       RecordAddPhone(RecValue(heap, Held(b, name)), phone).rec))

CopyRemovePhone ==
  \E b \in {"orig", "copy"}, name \in CopyNames, phone \in CopyPhones :
     /\ Holds(b, name)
     /\ On(b, RecStore(heap, Held(b, name),
                       RecordRemovePhone(RecValue(heap, Held(b, name)), phone).rec))

CopyEditPhone ==
  \E b \in {"orig", "copy"}, name \in CopyNames, old \in CopyPhones, new \in CopyPhones :
     /\ Holds(b, name)
     /\ On(b, RecStore(heap, Held(b, name),
                       RecordEditPhone(RecValue(heap, Held(b, name)), old, new).rec))

CopyAddBirthday ==
  \E b \in {"orig", "copy"}, name \in CopyNames, birthday \in CopyDates :
     /\ Holds(b, name)
     /\ On(b, RecStore(heap, Held(b, name),
                       RecordAddBirthday(RecValue(heap, Held(b, name)), birthday).rec))

\* copy.deepcopy(book)
DeepCopy ==
  /\ books.copy = 0
  /\ LET c == DeepCopyBook(heap, books.orig)
     IN /\ books' = [books EXCEPT !.copy = c.data]
        /\ heap' = Collect(c.heap, Live(books'))
  /\ target' = "copy"
  /\ UNCHANGED <<queryVars, recordVars, loopVars>>

NextCopy ==
  \/ CopyAddRecord
  \/ CopyDelete
  \/ CopyAddPhone
  \/ CopyRemovePhone
  \/ CopyEditPhone
  \/ CopyAddBirthday
  \/ DeepCopy

SpecCopy == InitCopy /\ [][NextCopy]_vars

\* what a book with data dict d holds: its keys in order, each with the name,
\* phones and birthday of its record
BookView(h, d) ==
  [i \in 1..Len(h.dicts[d]) |-> [key |-> h.dicts[d][i].key, rec |-> RecValue(h, h.dicts[d][i].ref)]]

RefsOf(h, d) == {h.dicts[d][i].ref : i \in 1..Len(h.dicts[d])}

\* the two books share no dict, Record or phone list
Apart(h, bs) ==
  /\ bs.orig # bs.copy
  /\ RefsOf(h, bs.orig) \cap RefsOf(h, bs.copy) = {}
  /\ {h.recs[r].phones : r \in RefsOf(h, bs.orig)} \cap {h.recs[r].phones : r \in RefsOf(h, bs.copy)} = {}

\* C5: once a book is deep-copied, a method called on the copy leaves the
\* original's keys, phone lists and birthdays as they were, and a method called
\* on the original leaves the copy's; the two share no dict, record or list.
C5_CopyIndependent ==
  [][(books.copy # 0 /\ books'.copy # 0) =>
        /\ target' = "copy" => BookView(heap', books'.orig) = BookView(heap, books.orig)
        /\ target' = "orig" => BookView(heap', books'.copy) = BookView(heap, books.copy)
        /\ Apart(heap', books')]_vars

\* after the copy, a phone added on the copy's Alice, who exists in both books
C5_Witness ==
  /\ books.copy # 0
  /\ target = "copy"
  /\ Holds("orig", "Alice")
  /\ Holds("copy", "Alice")
  /\ RecValue(heap, Held("orig", "Alice")).phones = << >>
  /\ RecValue(heap, Held("copy", "Alice")).phones = <<P1>>
  /\ RecValue(heap, Held("orig", "Alice")).birthday # RecValue(heap, Held("copy", "Alice")).birthday

====
